---- MODULE Spec2Model ----
(***************************************************************************)
(* Model of app.py: Holt's double exponential smoothing (holt_forecast)    *)
(* and the part of main() that builds the historical series and calls it.  *)
(*                                                                         *)
(* Python floats are IEEE-754 binary64.  They are modelled bit-exactly:    *)
(* a float is a record [s, m, e] of value (-1)^s * m * 2^e, where m is a   *)
(* natural number of at most 53 bits kept as a little-endian sequence of   *)
(* 15-bit limbs (TLC integers are 32 bits wide).  Every arithmetic         *)
(* operation computes the exact result and rounds it once, to nearest,     *)
(* ties to even, as the hardware does.  +0.0 and -0.0 are identified (the  *)
(* code only adds, subtracts, multiplies and compares with ==, for which   *)
(* the two zeros are interchangeable).  Infinities are out of range of the *)
(* bounded inputs and are not modelled.                                    *)
(***************************************************************************)
EXTENDS Integers, Sequences, FiniteSets, TLC

\* ------------------------------------------------------------------------
\* Natural numbers of arbitrary size: little-endian limbs, no leading zero
\* limb, zero is << >>.
\* ------------------------------------------------------------------------
LimbBits == 15
B == 32768

RECURSIVE Norm(_)
Norm(a) ==
    IF a = << >> THEN << >>
    ELSE IF a[Len(a)] = 0 THEN Norm(SubSeq(a, 1, Len(a) - 1))
    ELSE a

RECURSIVE BigFromInt(_)
BigFromInt(n) == IF n = 0 THEN << >> ELSE <<n % B>> \o BigFromInt(n \div B)

RECURSIVE AddC(_, _, _)
AddC(a, b, c) ==
    IF a = << >> /\ b = << >>
    THEN (IF c = 0 THEN << >> ELSE <<c>>)
    ELSE LET x == IF a = << >> THEN 0 ELSE Head(a)
             y == IF b = << >> THEN 0 ELSE Head(b)
             t == x + y + c
         IN  <<t % B>> \o AddC(IF a = << >> THEN a ELSE Tail(a),
                               IF b = << >> THEN b ELSE Tail(b),
                               t \div B)

BigAdd(a, b) == AddC(a, b, 0)

\* a - b for a >= b
RECURSIVE SubC(_, _, _)
SubC(a, b, c) ==
    IF a = << >> THEN << >>
    ELSE LET y == IF b = << >> THEN 0 ELSE Head(b)
             t == Head(a) - y - c
         IN  <<(t + B) % B>> \o SubC(Tail(a),
                                     IF b = << >> THEN b ELSE Tail(b),
                                     IF t < 0 THEN 1 ELSE 0)

BigSub(a, b) == Norm(SubC(a, b, 0))

\* -1, 0, 1 as a < b, a = b, a > b
BigCmp(a, b) ==
    IF Len(a) # Len(b) THEN (IF Len(a) < Len(b) THEN -1 ELSE 1)
    ELSE LET D == {j \in 1..Len(a) : a[j] # b[j]}
         IN  IF D = {} THEN 0
             ELSE LET k == CHOOSE j \in D : \A l \in D : l <= j
                  IN  IF a[k] < b[k] THEN -1 ELSE 1

\* a * k + c for 0 <= k, c < B
RECURSIVE MulSmall(_, _, _)
MulSmall(a, k, c) ==
    IF a = << >> THEN (IF c = 0 THEN << >> ELSE <<c>>)
    ELSE LET t == Head(a) * k + c
         IN  <<t % B>> \o MulSmall(Tail(a), k, t \div B)

RECURSIVE BigMul(_, _)
BigMul(a, b) ==
    IF a = << >> \/ b = << >> THEN << >>
    ELSE LET r == BigMul(a, Tail(b))
         IN  BigAdd(Norm(MulSmall(a, Head(b), 0)),
                    IF r = << >> THEN r ELSE <<0>> \o r)

\* number of bits of a (0 for zero)
BitLen(a) ==
    IF a = << >> THEN 0
    ELSE LimbBits * (Len(a) - 1)
         + (CHOOSE n \in 1..LimbBits : 2^(n-1) <= a[Len(a)] /\ a[Len(a)] < 2^n)

\* a * 2^n
Shl(a, n) ==
    IF a = << >> THEN a
    ELSE [j \in 1..(n \div LimbBits) |-> 0] \o MulSmall(a, 2^(n % LimbBits), 0)

\* floor(a / 2^n)
Shr(a, n) ==
    LET q == n \div LimbBits
        r == n % LimbBits
        L == Len(a) - q
    IN  IF L <= 0 THEN << >>
        ELSE Norm([j \in 1..L |->
                     (a[j + q] \div 2^r)
                     + (IF j + q < Len(a)
                        THEN (a[j + q + 1] % 2^r) * 2^(LimbBits - r)
                        ELSE 0)])

\* bit i of a (bit 0 is the least significant)
Bit(a, i) ==
    LET q == i \div LimbBits
    IN  IF q + 1 > Len(a) THEN 0 ELSE (a[q + 1] \div 2^(i % LimbBits)) % 2

\* a mod 2^n # 0
LowNonZero(a, n) ==
    LET q == n \div LimbBits
        r == n % LimbBits
    IN  \/ \E j \in 1..q : j <= Len(a) /\ a[j] # 0
        \/ q + 1 <= Len(a) /\ a[q + 1] % 2^r # 0

\* floor(a / k) and a mod k, for 0 < k < B, from the top limb down
RECURSIVE DivSmall(_, _)
DivSmall(a, k) ==
    IF a = << >> THEN [q |-> << >>, r |-> 0]
    ELSE LET hi == DivSmall(Tail(a), k)
             t  == hi.r * B + Head(a)
         IN  [q |-> <<t \div k>> \o hi.q, r |-> t % k]

\* ------------------------------------------------------------------------
\* IEEE-754 binary64
\* ------------------------------------------------------------------------
Precision == 53
EMin == -1074

FZero == [s |-> 0, m |-> << >>, e |-> 0]

IsZero(x) == x.m = << >>

\* the float nearest to (-1)^s * m * 2^e, ties to even
RoundPack(s, m, e) ==
    IF m = << >> THEN FZero
    ELSE
      LET n  == BitLen(m)
          k0 == n - Precision
          k  == IF EMin - e > k0 THEN EMin - e ELSE k0
      IN  IF k <= 0
          THEN LET up == IF Precision - n < e - EMin THEN Precision - n
                         ELSE e - EMin
               IN  [s |-> s, m |-> Shl(m, up), e |-> e - up]
          ELSE LET q   == Shr(m, k)
                   rb  == Bit(m, k - 1)
                   st  == LowNonZero(m, k - 1)
                   inc == rb = 1 /\ (st \/ Bit(q, 0) = 1)
                   q1  == IF inc THEN BigAdd(q, <<1>>) ELSE q
               IN  IF q1 = << >> THEN FZero
                   ELSE IF BitLen(q1) > Precision
                   THEN [s |-> s, m |-> Shr(q1, 1), e |-> e + k + 1]
                   ELSE [s |-> s, m |-> q1, e |-> e + k]

FNeg(x) == IF IsZero(x) THEN x ELSE [x EXCEPT !.s = 1 - x.s]

FAbs(x) == [x EXCEPT !.s = 0]

\* exact (unrounded) product and sum of two dyadic numbers [s, m, e]
ExMul(x, y) ==
    IF IsZero(x) \/ IsZero(y) THEN FZero
    ELSE [s |-> (x.s + y.s) % 2, m |-> BigMul(x.m, y.m), e |-> x.e + y.e]

ExAdd(x, y) ==
    IF IsZero(x) THEN y
    ELSE IF IsZero(y) THEN x
    ELSE
      LET e  == IF x.e < y.e THEN x.e ELSE y.e
          mx == Shl(x.m, x.e - e)
          my == Shl(y.m, y.e - e)
          c  == BigCmp(mx, my)
      IN  IF x.s = y.s THEN [s |-> x.s, m |-> BigAdd(mx, my), e |-> e]
          ELSE IF c = 0 THEN FZero
          ELSE IF c > 0 THEN [s |-> x.s, m |-> BigSub(mx, my), e |-> e]
          ELSE [s |-> y.s, m |-> BigSub(my, mx), e |-> e]

ExSub(x, y) == ExAdd(x, FNeg(y))

\* x = y and x <= y as real numbers
ExEq(x, y) == IsZero(ExSub(x, y))
ExLeq(x, y) == LET d == ExSub(x, y) IN IsZero(d) \/ d.s = 1

Round(x) == RoundPack(x.s, x.m, x.e)

\* Python's float *, + and -
FMul(x, y) == Round(ExMul(x, y))
FAdd(x, y) == Round(ExAdd(x, y))
FSub(x, y) == Round(ExSub(x, y))

\* the float nearest to n / d, for integers n and 0 < d < B: the value of
\* the decimal literal or cell n/d (0.2 is Dec(2, 10)), and of an int
GuardBits == 75
\* the float nearest to (-1)^s * n / d for a natural number n in limbs
DecBig(s, n, d) ==
    IF n = << >> THEN FZero
    ELSE LET qr == DivSmall(Shl(n, GuardBits), d)
             q  == Norm(qr.q)
         IN  RoundPack(s,
                       BigAdd(Shl(q, 1), IF qr.r = 0 THEN << >> ELSE <<1>>),
                       -(GuardBits + 1))

Dec(n, d) == DecBig(IF n < 0 THEN 1 ELSE 0, BigFromInt(IF n < 0 THEN -n ELSE n), d)

\* Python's round(x, 2): the exact value of x rounded to two decimals,
\* ties to even, and the float nearest to that decimal
Hundred == 100
Round2(x) ==
    IF IsZero(x) THEN FZero
    ELSE LET y == MulSmall(x.m, Hundred, 0)
             n == IF x.e >= 0 THEN Shl(y, x.e)
                  ELSE LET q   == Shr(y, -x.e)
                           inc == /\ Bit(y, -x.e - 1) = 1
                                  /\ (LowNonZero(y, -x.e - 1) \/ Bit(q, 0) = 1)
                       IN  IF inc THEN BigAdd(q, <<1>>) ELSE q
         IN  DecBig(x.s, n, Hundred)

F(n) == Dec(n, 1)

\* x < y
FLess(x, y) == ~ExLeq(y, x)

\* ------------------------------------------------------------------------
\* holt_forecast(data, alpha=0.2, beta=0.1, periods=1)
\* ------------------------------------------------------------------------
VARIABLES
    pc,          \* "idle", "fit" (loop of line 16), "project" (loop of line 21), "returned"
    data, alpha, beta, periods,     \* the arguments of the call
    level, trend, level_prev,       \* the locals of lines 12-26
    forecasts,                      \* the list of line 14
    i,                              \* Python's i of line 16 (data[i] is data[i+1] here)
    k,                              \* iterations of the loop of line 21 done
    result,                         \* what the last call returned
    terminal,                       \* (level, trend) when the loop of line 16 ended
    calls,                          \* calls made so far
    seen                            \* <<arguments, result>> of every completed call

engineVars == <<pc, data, alpha, beta, periods, level, trend, level_prev,
                forecasts, i, k, result, terminal, calls, seen>>

\* main(): one run of the script
VARIABLES
    mpc,              \* "start", "upload", "manual", "periods", "generate",
                      \* "calling", "done", "stopped", "crashed"
    uploaded_file,    \* what st.file_uploader returned (line 90)
    historical_data,  \* the list of lines 99, 106 and 119-128
    entries,          \* what the twelve number_input widgets returned
    manual_used,      \* the block of lines 117-128 ran
    m_periods,        \* main's periods (line 132)
    clicked,          \* what the button of line 141 returned
    reports,          \* the st.success / warning / error / info messages, in order
    shown,            \* the column 'Prévision' of the result table (line 168)
    tendance,         \* the column 'Tendance' of the result table (line 169)
    session_state     \* st.session_state: the values under the keys hist_0 ..
                      \* hist_11 (lines 39-41 and 127), << >> when it has no key

mainVars == <<mpc, uploaded_file, historical_data, entries, manual_used,
              m_periods, clicked, reports, shown, tendance, session_state>>

One == F(1)
DefaultAlpha == Dec(2, 10)
DefaultBeta == Dec(1, 10)

\* the sentinel replaced by an empty list
NaNAsEmptyList == [kind |-> "list", seq |-> << >>]
NaN == [kind |-> "nan", seq |-> << >>]
NoResult == [kind |-> "none", seq |-> << >>]
ListResult(f) == [kind |-> "list", seq |-> f]

TooShort(d) == Len(d) < 2

SeedLevel(d) == d[1]
\* the trend seeded with the second observation, not the first difference
SeedTrendNoDifference(d) == d[2]
\* the trend left as the previous call left it
SeedTrendStale(d) == trend
SeedTrend(d) == FSub(d[2], d[1])

\* the level update without the trend term
NewLevelNoTrend(a, obs, lv, tr) ==
    FAdd(FMul(a, obs), FMul(FSub(One, a), lv))
\* the level update that takes the observation as it is
NewLevelUnsmoothed(a, obs, lv, tr) == obs
\* lines 18 and 25
NewLevel(a, obs, lv, tr) ==
    FAdd(FMul(a, obs), FMul(FSub(One, a), FAdd(lv, tr)))

\* lines 19 and 26
NewTrend(b, lv, lp, tr) ==
    FAdd(FMul(b, FSub(lv, lp)), FMul(FSub(One, b), tr))

\* line 22
Forecast(lv, tr) == FAdd(lv, tr)

\* line 16: i in range(1, len(data)); line 21: range(periods)
MoreToFit(j, d) == j < Len(d)
\* one iteration too many
MoreToProjectInclusive(done, p) == done <= p
MoreToProject(done, p) == done < p

\* lines 8-14: the call, the length test and the seeding
Enter(d, a, b, p) ==
    /\ pc \in {"idle", "returned"}
    /\ data' = d /\ alpha' = a /\ beta' = b /\ periods' = p
    /\ calls' = calls + 1
    /\ IF TooShort(d)
       THEN /\ result' = NaN
            /\ pc' = "returned"
            /\ seen' = seen \cup {<<d, a, b, p, NaN>>}
            /\ UNCHANGED <<level, trend, level_prev, forecasts, i, k, terminal>>
       ELSE /\ level' = SeedLevel(d)
            /\ trend' = SeedTrend(d)
            /\ forecasts' = << >>
            /\ i' = 1
            /\ pc' = "fit"
            /\ UNCHANGED <<level_prev, k, result, terminal, seen>>

\* lines 16-19: one iteration of the historical fit
FitStep ==
    /\ pc = "fit"
    /\ MoreToFit(i, data)
    /\ LET lv == NewLevel(alpha, data[i + 1], level, trend)
           tr == NewTrend(beta, lv, level, trend)
       IN  /\ level_prev' = level
           /\ level' = lv
           /\ trend' = tr
           /\ i' = i + 1
           /\ IF MoreToFit(i + 1, data)
              THEN UNCHANGED <<pc, k, terminal>>
              ELSE /\ pc' = "project"
                   /\ k' = 0
                   /\ terminal' = [level |-> lv, trend |-> tr]
    /\ UNCHANGED <<data, alpha, beta, periods, forecasts, result, calls, seen>>
    /\ UNCHANGED mainVars

\* lines 21-26: one iteration of the extrapolation
ProjectStep ==
    /\ pc = "project"
    /\ MoreToProject(k, periods)
    /\ LET forecast == Forecast(level, trend)
           lv == NewLevel(alpha, forecast, level, trend)
       IN  /\ forecasts' = Append(forecasts, forecast)
           /\ level_prev' = level
           /\ level' = lv
           /\ trend' = NewTrend(beta, lv, level, trend)
    /\ k' = k + 1
    /\ UNCHANGED <<pc, data, alpha, beta, periods, i, result, terminal, calls, seen>>
    /\ UNCHANGED mainVars

\* line 28
Return ==
    /\ pc = "project"
    /\ ~MoreToProject(k, periods)
    /\ result' = ListResult(forecasts)
    /\ seen' = seen \cup {<<data, alpha, beta, periods, ListResult(forecasts)>>}
    /\ pc' = "returned"
    /\ UNCHANGED <<data, alpha, beta, periods, level, trend, level_prev,
                   forecasts, i, k, terminal, calls>>
    /\ UNCHANGED mainVars

EngineInit ==
    /\ pc = "idle"
    /\ data = << >> /\ alpha = DefaultAlpha /\ beta = DefaultBeta /\ periods = 1
    /\ level = FZero /\ trend = FZero /\ level_prev = FZero
    /\ forecasts = << >> /\ i = 0 /\ k = 0
    /\ result = NoResult
    /\ terminal = [level |-> FZero, trend |-> FZero]
    /\ calls = 0
    /\ seen = {}

\* ------------------------------------------------------------------------
\* The inputs of the engine
\* ------------------------------------------------------------------------
MaxLen == 3
MaxPeriods == 3
Months == 12

Vals == {F(0), F(3), Dec(15, 10)}

RECURSIVE SeqsUpTo(_, _)
SeqsUpTo(S, n) ==
    IF n = 0 THEN {<< >>}
    ELSE LET R == SeqsUpTo(S, n - 1)
         IN  R \cup {Append(r, x) : r \in {q \in R : Len(q) = n - 1}, x \in S}

Const12(c) == [j \in 1..Months |-> c]
\* a, a+d, a+2d, ... for integers a and d
Linear12(a, d) == [j \in 1..Months |-> F(a + (j - 1) * d)]

ConstVals == {F(0), F(10), F(3), Dec(1, 10)}
LinPairs == {<<0, 1>>, <<100, 5>>, <<40, -3>>}

SeriesSet ==
    SeqsUpTo(Vals, MaxLen)
    \cup {Const12(c) : c \in ConstVals}
    \cup {Linear12(ad[1], ad[2]) : ad \in LinPairs}

Alphas == {DefaultAlpha, Dec(3, 10), One}
Betas == {DefaultBeta, Dec(7, 10)}

\* a direct call of the engine, outside main, in a process with no session
Call ==
    /\ mpc = "start"
    /\ session_state = << >>
    /\ calls < 1
    /\ \E d \in SeriesSet, a \in Alphas, b \in Betas, p \in 0..MaxPeriods :
          Enter(d, a, b, p)
    /\ UNCHANGED mainVars

\* ------------------------------------------------------------------------
\* main(), lines 43-197
\* ------------------------------------------------------------------------
NoFile == [present |-> FALSE, readable |-> FALSE, columns |-> {}, rows |-> << >>]

\* line 104
HasColumns(f) == {"mois", "value"} \subseteq f.columns
\* twelve rows not enough
EnoughRowsStrict(f) == Len(f.rows) > Months
\* line 105
EnoughRows(f) == Len(f.rows) >= Months
\* the whole column, not its first twelve values
TakeSeriesAll(f) == [j \in 1..Len(f.rows) |-> f.rows[j].value]
\* line 106: df_history['value'].head(12).tolist()
TakeSeries(f) == [j \in 1..Months |-> f.rows[j].value]

\* only an empty series counts as no data
AllZeroOnlyEmpty(h) == h = << >>
\* line 142: all(v == 0 for v in historical_data)
AllZero(h) == \A j \in 1..Len(h) : IsZero(h[j])

\* lines 132-138: number_input(min_value=1, max_value=120, value=6, step=1)
PeriodsMin == 1
PeriodsMax == 120
PeriodsDefault == 6
\* lines 122-128: number_input(min_value=0.0, value=0.0, step=1.0)
EntryMin == FZero
EntryDefault == FZero

\* what a number_input can return: a value of the offered ones that is
\* within [min_value, max_value]
InRangeInt(S, lo, hi) == {x \in S : lo <= x /\ x <= hi}
AtLeast(S, lo) == {x \in S : ~FLess(x, lo)}

\* the files the user may upload: rows carry a month label and a value;
\* the labels are not in calendar order and the values are not sorted
RowCounts == {0, Months - 1, Months, Months + 1}
FileValues(kind, j) ==
    CASE kind = "zeros" -> FZero
      [] kind = "mixed" -> F(((j * 7) % 13) - 2)
RowsOf(kind, n) ==
    [j \in 1..n |-> [mois |-> ((j * 5) % Months) + 1, value |-> FileValues(kind, j)]]
FileOf(r, c, kind, n) ==
    [present |-> TRUE, readable |-> r, columns |-> c, rows |-> RowsOf(kind, n)]
ColumnSets == {{"mois", "value"}, {"mois", "value", "note"}, {"mois"}, {"value"}}
Files ==
    {FileOf(FALSE, {"mois", "value"}, "mixed", Months)}
    \cup {FileOf(TRUE, c, "mixed", Months) : c \in ColumnSets}
    \cup {FileOf(TRUE, {"mois", "value"}, kd, n) : kd \in {"zeros", "mixed"}, n \in RowCounts}

\* what the user may type in the twelve slots
OfferedEntries == {F(0), F(3), Dec(15, 10), F(-3)}
EntryPatterns ==
    {[j \in 1..Months |-> IF j % 3 = 1 THEN x ELSE EntryDefault] :
        x \in AtLeast(OfferedEntries, EntryMin)}
OfferedPeriods == {0, PeriodsMin, PeriodsDefault, PeriodsMax, PeriodsMax + 1}

\* lines 44-47 and 52-81, the button 'Réinitialiser' not pressed: page
\* set-up, catalogue and article selection; st.stop() ends the run when the
\* catalogue cannot be loaded or no article is chosen
Preamble ==
    /\ mpc = "start"
    /\ calls = 0
    /\ \E loaded \in BOOLEAN, selected \in BOOLEAN :
          IF loaded /\ selected
          THEN /\ mpc' = "upload"
               /\ UNCHANGED reports
          ELSE /\ mpc' = "stopped"
               /\ reports' = Append(reports, IF loaded THEN "warning_select"
                                                       ELSE "error_catalogue")
    /\ UNCHANGED <<uploaded_file, historical_data, entries, manual_used, m_periods, clicked, shown, tendance, session_state>>
    /\ UNCHANGED engineVars

\* lines 90-113: the uploader and the reading of the file
Upload ==
    /\ mpc = "upload"
    /\ \E f \in Files \cup {NoFile} :
          /\ uploaded_file' = f
          /\ IF ~f.present
             THEN UNCHANGED <<historical_data, reports>>
             ELSE IF ~f.readable
             THEN /\ reports' = Append(reports, "error_read")
                  /\ UNCHANGED historical_data
             ELSE IF ~HasColumns(f)
             THEN /\ reports' = Append(reports, "error_columns")
                  /\ UNCHANGED historical_data
             ELSE IF ~EnoughRows(f)
             THEN /\ reports' = Append(reports, "warning_rows")
                  /\ UNCHANGED historical_data
             ELSE /\ historical_data' = TakeSeries(f)
                  /\ reports' = Append(reports, "success")
    /\ mpc' = "manual"
    /\ UNCHANGED <<entries, manual_used, m_periods, clicked, shown, tendance, session_state>>
    /\ UNCHANGED engineVars

\* lines 116-128: manual entry when the file gave no series
ManualEntry ==
    /\ mpc = "manual"
    /\ IF historical_data = << >>
       THEN \E e \in EntryPatterns :
               /\ entries' = e
               /\ historical_data' = e
               /\ manual_used' = TRUE
               /\ session_state' = e
               /\ reports' = Append(reports, "info_manual")
       ELSE UNCHANGED <<entries, historical_data, manual_used, reports, session_state>>
    /\ mpc' = "periods"
    /\ UNCHANGED <<uploaded_file, m_periods, clicked, shown, tendance>>
    /\ UNCHANGED engineVars

\* lines 131-138: the horizon
PeriodsInput ==
    /\ mpc = "periods"
    /\ \E p \in InRangeInt(OfferedPeriods, PeriodsMin, PeriodsMax) : m_periods' = p
    /\ mpc' = "generate"
    /\ UNCHANGED <<uploaded_file, historical_data, entries, manual_used, clicked, reports, shown, tendance, session_state>>
    /\ UNCHANGED engineVars

\* lines 141-146: the button, the all-zero test and the call
Generate ==
    /\ mpc = "generate"
    /\ \E c \in BOOLEAN :
          /\ clicked' = c
          /\ IF ~c
             THEN /\ mpc' = "done"
                  /\ UNCHANGED reports
                  /\ UNCHANGED engineVars
             ELSE IF AllZero(historical_data)
             THEN /\ mpc' = "done"
                  /\ reports' = Append(reports, "error_nodata")
                  /\ UNCHANGED engineVars
             ELSE /\ mpc' = "calling"
                  /\ UNCHANGED reports
                  /\ Enter(historical_data, DefaultAlpha, DefaultBeta, m_periods)
    /\ UNCHANGED <<uploaded_file, historical_data, entries, manual_used, m_periods,
                   shown, tendance, session_state>>

\* line 168: [round(val, 2) for val in forecasts]
Previsions(f) == [j \in 1..Len(f) |-> Round2(f[j])]
\* line 169: "↑" if i > 0 and forecasts[i] > forecasts[i-1] else "↓"
Tendances(f) ==
    [j \in 1..Len(f) |-> IF j > 1 /\ FLess(f[j - 1], f[j]) THEN "up" ELSE "down"]

\* lines 148-197: the result is iterated as a list (lines 168-169) and the
\* table, the chart and the exports are made of the rounded values; the
\* sentinel is a float and cannot be iterated
Display ==
    /\ mpc = "calling"
    /\ pc = "returned"
    /\ IF result.kind = "list"
       THEN /\ shown' = Previsions(result.seq)
            /\ tendance' = Tendances(result.seq)
            /\ mpc' = "done"
       ELSE /\ mpc' = "crashed"
            /\ UNCHANGED <<shown, tendance>>
    /\ UNCHANGED <<uploaded_file, historical_data, entries, manual_used, m_periods,
                   clicked, reports, session_state>>
    /\ UNCHANGED engineVars

\* the locals of a run that starts
FreshRun ==
    /\ mpc' = "start"
    /\ uploaded_file' = NoFile /\ historical_data' = << >>
    /\ entries' = << >> /\ manual_used' = FALSE
    /\ m_periods' = PeriodsDefault /\ clicked' = FALSE
    /\ reports' = << >> /\ shown' = << >> /\ tendance' = << >>
    /\ pc' = "idle"
    /\ data' = << >> /\ alpha' = DefaultAlpha /\ beta' = DefaultBeta /\ periods' = 1
    /\ level' = FZero /\ trend' = FZero /\ level_prev' = FZero
    /\ forecasts' = << >> /\ i' = 0 /\ k' = 0
    /\ result' = NoResult
    /\ terminal' = [level |-> FZero, trend |-> FZero]
    /\ calls' = 0
    /\ seen' = {}

\* lines 39-41 and 48-50: the button 'Réinitialiser' returned True:
\* reset_session() deletes every key of st.session_state and st.rerun()
\* ends the run there, nothing reported
Reset ==
    /\ mpc = "start"
    /\ calls = 0
    /\ session_state' = << >>
    /\ mpc' = "rerun"
    /\ UNCHANGED <<uploaded_file, historical_data, entries, manual_used, m_periods,
                   clicked, reports, shown, tendance>>
    /\ UNCHANGED engineVars

\* st.rerun() (line 50), or an interaction after the end of a run, starts
\* the script again from the top with fresh locals; st.session_state is kept
Rerun ==
    /\ mpc \in {"rerun", "done", "stopped", "crashed"}
    /\ UNCHANGED session_state
    /\ FreshRun

MainInit ==
    /\ mpc = "start"
    /\ uploaded_file = NoFile /\ historical_data = << >>
    /\ entries = << >> /\ manual_used = FALSE
    /\ m_periods = PeriodsDefault /\ clicked = FALSE
    /\ reports = << >> /\ shown = << >> /\ tendance = << >>
    /\ session_state = << >>

vars == <<engineVars, mainVars>>

Init == EngineInit /\ MainInit

Next ==
    \/ Call \/ FitStep \/ ProjectStep \/ Return
    \/ Preamble \/ Upload \/ ManualEntry \/ PeriodsInput \/ Generate
    \/ Display \/ Reset \/ Rerun

Spec == Init /\ [][Next]_vars

\* ------------------------------------------------------------------------
\* Repeated calls of the engine: the locals keep what the last call left
\* in them until the next call seeds them again
\* ------------------------------------------------------------------------
MaxCalls == 3

PureSeries == {<<F(3)>>, <<F(0), F(3)>>, <<F(3), Dec(15, 10), F(0)>>}
PureAlphas == {DefaultAlpha, Dec(3, 10)}
PurePeriods == {0, 2}

CallAgain ==
    /\ mpc = "start"
    /\ calls < MaxCalls
    /\ \E d \in PureSeries, a \in PureAlphas, p \in PurePeriods :
          Enter(d, a, DefaultBeta, p)
    /\ UNCHANGED mainVars

NextPure == CallAgain \/ FitStep \/ ProjectStep \/ Return

SpecPure == Init /\ [][NextPure]_vars

\* ------------------------------------------------------------------------
\* Properties
\* ------------------------------------------------------------------------
Running == pc \in {"fit", "project"}
Fitted == pc \in {"project", "returned"}
Defaults == alpha = DefaultAlpha /\ beta = DefaultBeta

\* C1: a call with a series of length 0 or 1 returns the undefined
\* sentinel at once, whatever alpha, beta and periods are: level and trend
\* are never assigned and no forecast is emitted.
C1_ShortSeriesUndefined ==
    (calls > 0 /\ Len(data) < 2) =>
        /\ pc = "returned"
        /\ result.kind = "nan"
        /\ forecasts = << >>
        /\ level = FZero /\ trend = FZero /\ level_prev = FZero
        /\ i = 0 /\ k = 0

C1_Witness ==
    /\ pc = "returned" /\ Len(data) = 1 /\ periods = MaxPeriods
    /\ alpha = One /\ beta = Dec(7, 10)
    /\ result.kind = "nan"

\* C2: a call with a series of length >= 2 and periods >= 0 returns a list
\* of exactly periods forecasts; periods = 0 gives the empty list.
C2_LengthIsPeriods ==
    (pc = "returned" /\ Len(data) >= 2) =>
        /\ result.kind = "list"
        /\ Len(result.seq) = periods
        /\ (periods = 0 => result.seq = << >>)

C2_Witness ==
    /\ pc = "returned" /\ Len(data) = MaxLen /\ periods = 0
    /\ result.kind = "list" /\ result.seq = << >>

\* the real number terminal.level + j * terminal.trend
ClosedForm(j) == ExAdd(terminal.level, ExMul(F(j), terminal.trend))
ProjectionScale(j) == ExAdd(FAbs(terminal.level), ExMul(F(j), FAbs(terminal.trend)))
Tolerance == [s |-> 0, m |-> <<1>>, e |-> -32]

\* Python's level + (k+1)*trend on the terminal state
ClosedFormFloat(j) == Round(ExAdd(terminal.level, Round(ExMul(F(j), terminal.trend))))

\* C3 as stated: the k-th forecast (0-indexed) is exactly
\* level + (k+1)*trend for the level and trend the historical fit ended
\* with, the right-hand side evaluated in float arithmetic as the
\* forecasts are.
C3_ProjectionExact ==
    Fitted => \A j \in 1..Len(forecasts) : forecasts[j] = ClosedFormFloat(j)

\* C3, amended: the k-th forecast is level + (k+1)*trend up to
\* floating-point rounding: it differs from it by at most
\* 2^-32 * (|level| + (k+1)*|trend|), and the first forecast is the float
\* sum of level and trend.
C3_ProjectionWithinRounding ==
    Fitted =>
        /\ \A j \in 1..Len(forecasts) :
              ExLeq(FAbs(ExSub(forecasts[j], ClosedForm(j))),
                    ExMul(Tolerance, ProjectionScale(j)))
        /\ (Len(forecasts) >= 1 =>
               forecasts[1] = Round(ExAdd(terminal.level, terminal.trend)))

C3_Witness ==
    /\ pc = "returned" /\ Len(forecasts) >= 2
    /\ forecasts[2] # ClosedFormFloat(2)
    /\ ~ExEq(forecasts[2], ClosedForm(2))
    /\ ~IsZero(terminal.trend)

ConstantCall ==
    /\ calls > 0 /\ mpc = "start"
    /\ Len(data) = 12 /\ \A j \in 1..Len(data) : data[j] = data[1]
    /\ Defaults /\ periods = 3

ConstantHeld ==
    /\ (pc \in {"fit", "project", "returned"} => level = data[1] /\ trend = FZero)
    /\ (pc = "returned" => result.seq = <<data[1], data[1], data[1]>>)

\* C4 as stated: for every constant series of 12 values c, with alpha = 0.2,
\* beta = 0.1 and periods = 3, level is c and trend is 0 after every step
\* and the result is [c, c, c].
C4_ConstantExact == ConstantCall => ConstantHeld

\* C4, amended: the same, for the values c that 0.2*c + (1 - 0.2)*c
\* evaluates to in float arithmetic (10.0 is one, 3.0 is not).
C4_ConstantExactWhenStable ==
    (/\ ConstantCall
     /\ Round(ExAdd(Round(ExMul(alpha, data[1])),
                    Round(ExMul(Round(ExSub(One, alpha)), data[1])))) = data[1])
    => ConstantHeld

C4_Witness ==
    /\ pc = "returned" /\ ConstantCall /\ data[1] = F(10)
    /\ result.seq = <<F(10), F(10), F(10)>>

\* C5: there is a strictly linear series of 12 points a, a+d, ... and
\* alpha, beta in (0,1) for which the fit ends with a trend other than d
\* and a level other than a+11d, though close to them: a = 0, d = 1 with
\* alpha = 0.2 and beta = 0.1.  (For a = 100, d = 5 they are exactly 5 and 155.)
C5_LinearTrendInexact ==
    (Fitted /\ calls > 0 /\ mpc = "start" /\ Defaults) =>
        /\ (data = Linear12(0, 1) =>
               /\ terminal.trend # F(1)
               /\ terminal.level # F(11)
               /\ ExLeq(FAbs(ExSub(terminal.trend, F(1))), Tolerance)
               /\ ExLeq(FAbs(ExSub(terminal.level, F(11))), Tolerance))
        /\ (data = Linear12(100, 5) =>
               terminal.trend = F(5) /\ terminal.level = F(155))

C5_Witness ==
    /\ pc = "returned" /\ data = Linear12(0, 1) /\ Defaults /\ mpc = "start"
    /\ terminal.trend # F(1)

\* the file of the run was refused / taken
FileRefused ==
    /\ uploaded_file.present
    /\ \/ ~uploaded_file.readable
       \/ ~("mois" \in uploaded_file.columns /\ "value" \in uploaded_file.columns)
       \/ Len(uploaded_file.rows) < 12
FileTaken ==
    /\ uploaded_file.present /\ uploaded_file.readable
    /\ "mois" \in uploaded_file.columns /\ "value" \in uploaded_file.columns
    /\ Len(uploaded_file.rows) >= 12
PastEntry == mpc \in {"periods", "generate", "calling", "done", "crashed"}
Reported(r) == \E j \in 1..Len(reports) : reports[j] = r

\* C7: a file that cannot be read, lacks the 'mois' or the 'value' column or
\* has fewer than 12 rows is reported, gives no series, and the series is
\* the manual entry; a file with both columns and at least 12 rows gives
\* its first 12 values in file order and manual entry is not used.
C7_FileOrManual ==
    /\ (mpc = "manual" /\ FileRefused =>
           /\ historical_data = << >>
           /\ Len(reports) = 1
           /\ reports[1] = (IF ~uploaded_file.readable THEN "error_read"
                            ELSE IF ~({"mois", "value"} \subseteq uploaded_file.columns)
                            THEN "error_columns" ELSE "warning_rows"))
    /\ (PastEntry /\ FileRefused =>
           /\ manual_used
           /\ Len(entries) = 12
           /\ historical_data = entries
           /\ ~Reported("success"))
    /\ (PastEntry /\ FileTaken =>
           /\ ~manual_used
           /\ entries = << >>
           /\ Len(historical_data) = 12
           /\ \A j \in 1..12 : historical_data[j] = uploaded_file.rows[j].value
           /\ reports[1] = "success"
           /\ ~Reported("info_manual"))

C7_Witness ==
    /\ mpc = "calling" /\ FileTaken /\ Len(uploaded_file.rows) = 13
    /\ \E j \in 1..11 : FLess(historical_data[j + 1], historical_data[j])
    /\ \E j \in 1..11 : uploaded_file.rows[j + 1].mois < uploaded_file.rows[j].mois

SameArguments(x, y) == x[1] = y[1] /\ x[2] = y[2] /\ x[3] = y[3] /\ x[4] = y[4]

\* C8: the result of a call depends only on its arguments: any two
\* completed calls with the same (data, alpha, beta, periods) returned the
\* same value, whatever ran in between; each call seeds level and trend
\* from data[0] and data[1]; the series is not modified while a call runs.
C8_Pure ==
    /\ [](\A x \in seen, y \in seen : SameArguments(x, y) => x[5] = y[5])
    /\ [][/\ (calls' = calls + 1 /\ Len(data') >= 2 =>
                 /\ level' = data'[1]
                 /\ trend' = Round(ExSub(data'[2], data'[1]))
                 /\ forecasts' = << >>)
          /\ (Running => data' = data)]_vars

C8_Witness ==
    /\ calls = MaxCalls /\ pc = "returned" /\ Cardinality(seen) = 2
    /\ result.kind = "list" /\ Len(result.seq) = 2
    /\ \E x \in seen : /\ x[5] = result /\ x[1] = data /\ x[2] = alpha
                       /\ x[1] # <<F(0), F(3)>>
    /\ \E x \in seen : x[1] = <<F(0), F(3)>> /\ x[4] = 2

AllValuesZero(h) == \A j \in 1..Len(h) : h[j] = FZero

\* C9: main refuses an all-zero series: when the button is pressed with
\* every historical value 0, an error is reported and holt_forecast is not
\* called; holt_forecast itself takes an all-zero series of length >= 2 and
\* returns periods forecasts.
C9_AllZeroRefusedByMain ==
    /\ (mpc \in {"calling", "done", "crashed"} /\ clicked
        /\ AllValuesZero(historical_data)) =>
           /\ mpc = "done"
           /\ reports[Len(reports)] = "error_nodata"
           /\ calls = 0 /\ pc = "idle" /\ result.kind = "none"
    /\ (pc = "returned" /\ Len(data) >= 2 /\ AllValuesZero(data)) =>
           /\ result.kind = "list"
           /\ Len(result.seq) = periods

C9_Witness ==
    /\ mpc = "done" /\ clicked /\ AllValuesZero(historical_data)
    /\ FileTaken /\ calls = 0
    /\ Reported("error_nodata")

\* C10: wherever main calls holt_forecast, the series has exactly 12
\* values and periods is an integer in 1..120, so the call never returns
\* the undefined sentinel and main never iterates over it; the table it
\* shows has one row per period, each forecast rounded to two decimals.
C10_CallPreconditions ==
    /\ (mpc = "calling" =>
           /\ data = historical_data /\ periods = m_periods
           /\ Len(data) = 12
           /\ periods \in 1..120
           /\ Defaults
           /\ (pc = "returned" => result.kind = "list" /\ Len(result.seq) = periods))
    /\ mpc # "crashed"
    /\ (mpc = "done" /\ calls > 0 =>
           /\ Len(shown) = m_periods /\ Len(tendance) = m_periods
           /\ \A j \in 1..Len(shown) :
                 /\ shown[j] = Round2(result.seq[j])
                 /\ ExLeq(FAbs(ExSub(shown[j], result.seq[j])), Dec(1, 100)))

C10_Witness ==
    /\ mpc = "done" /\ pc = "returned"
    /\ FileRefused /\ manual_used /\ periods = 120
    /\ Len(result.seq) = 120
    /\ Len(shown) = 120 /\ shown # result.seq

====
